---- MODULE Spec2Model ----
(***************************************************************************)
(* Model of app.py: a Dash dashboard that scrapes a ticker list once at    *)
(* import time, serves one reactive callback (update_graph) that scrapes a *)
(* price-history table and draws it, and then opens a Qt window.           *)
(*                                                                         *)
(* Python's optional values are sequences of length at most one: None is   *)
(* <<>> and a present value v is <<v>>.  The same encoding is used for     *)
(* pandas' missing value (NaN).  Strings are TLA+ strings and are parsed   *)
(* character by character.                                                 *)
(***************************************************************************)
EXTENDS Integers, Sequences, FiniteSets, TLC

None == <<>>
Some(v) == <<v>>

(* ------------------------------ bounds --------------------------------- *)
\* most rows of the history tables that are assembled from every
\* combination of rows
MaxRows == 1

\* The development server answers every request on a thread of its own.
\* Invocations share no variable they write, so two threads show every way
\* one invocation can be disturbed by another.
Workers == {1, 2}

(* ------------------------- module-level constants ---------------------- *)
headers == [UserAgent |-> "Mozilla/5.0 (Windows NT 10.0; Win64; x64) AppleWebKit/537.36 (KHTML, like Gecko) Chrome/91.0.4472.124 Safari/537.36"]
url_stocks == "https://finance.yahoo.com/markets/stocks/most-active/?start=0&count=100"
COLUMNS == <<"Date", "Open", "High", "Low", "Close", "Adj Close", "Volume">>
\* datetime.today().strftime("%Y-%m-%d") on the day the process starts
Today == "2024-06-03"

(* --------------------------- string parsing ---------------------------- *)
Char(s, i) == SubSeq(s, i, i)

IsDigit(c) == c \in {"0", "1", "2", "3", "4", "5", "6", "7", "8", "9"}

DigitVal(c) ==
    CASE c = "0" -> 0 [] c = "1" -> 1 [] c = "2" -> 2 [] c = "3" -> 3
      [] c = "4" -> 4 [] c = "5" -> 5 [] c = "6" -> 6 [] c = "7" -> 7
      [] c = "8" -> 8 [] c = "9" -> 9

AllDigits(s) == Len(s) > 0 /\ \A i \in 1..Len(s) : IsDigit(Char(s, i))

RECURSIVE NatOf(_)
NatOf(s) ==
    IF Len(s) = 0 THEN 0
    ELSE 10 * NatOf(SubSeq(s, 1, Len(s) - 1)) + DigitVal(Char(s, Len(s)))

\* pd.to_numeric(cell, errors='coerce') on one cell: a number, or NaN (None)
to_numeric(cell) == IF AllDigits(cell) THEN Some(NatOf(cell)) ELSE None

IsLeap(y) == (y % 4 = 0 /\ y % 100 # 0) \/ y % 400 = 0

DaysInMonth(y, m) ==
    IF m = 2 THEN (IF IsLeap(y) THEN 29 ELSE 28)
    ELSE IF m \in {4, 6, 9, 11} THEN 30 ELSE 31

\* "%Y-%m-%d" on a zero-padded ten-character string: <<y, m, d>>, or None
\* where the parser raises ValueError
ParseDate(s) ==
    IF /\ Len(s) = 10
       /\ Char(s, 5) = "-"
       /\ Char(s, 8) = "-"
       /\ AllDigits(SubSeq(s, 1, 4))
       /\ AllDigits(SubSeq(s, 6, 7))
       /\ AllDigits(SubSeq(s, 9, 10))
    THEN LET y == NatOf(SubSeq(s, 1, 4))
             m == NatOf(SubSeq(s, 6, 7))
             d == NatOf(SubSeq(s, 9, 10))
         IN  IF y >= 1 /\ m \in 1..12 /\ d >= 1 /\ d <= DaysInMonth(y, m)
             THEN Some(<<y, m, d>>)
             ELSE None
    ELSE None

\* days from 1970-01-01 to the civil date y-m-d
DaysFromCivil(y, m, d) ==
    LET yy  == IF m <= 2 THEN y - 1 ELSE y
        era == yy \div 400
        yoe == yy - era * 400
        mp  == (m + 9) % 12
        doy == (153 * mp + 2) \div 5 + d - 1
        doe == yoe * 365 + yoe \div 4 - yoe \div 100 + doy
    IN  era * 146097 + doe - 719468

\* int(datetime(y, m, d).timestamp()), the process running in UTC
Timestamp(ymd) == DaysFromCivil(ymd[1], ymd[2], ymd[3]) * 86400

(* ------------------------------ figures -------------------------------- *)
\* keys of upd override keys of lay, as fig.update_layout does
Merge(upd, lay) ==
    [k \in DOMAIN upd \cup DOMAIN lay |-> IF k \in DOMAIN upd THEN upd[k] ELSE lay[k]]

\* go.Figure(data=traces)
Figure(traces) == [layout |-> [k \in {} |-> None], data |-> traces]

\* go.Scatter(x=x, y=y, mode=mode)
Scatter(x, y, mode) == [type |-> "scatter", x |-> x, y |-> y, mode |-> mode]

add_trace(fig, trace) == [fig EXCEPT !.data = Append(@, trace)]

update_layout(fig, upd) == [fig EXCEPT !.layout = Merge(upd, @)]

\* the shared settings; title_x is the float 0.5, written as its literal
CommonSettings ==
    [title_x |-> "0.5", width |-> 800, height |-> 600, template |-> "plotly_white"]

\* common_layout that only fills in what the figure has not set itself
common_layout_Defaults(fig) == [fig EXCEPT !.layout = Merge(@, CommonSettings)]

common_layout(fig) == update_layout(fig, CommonSettings)

empty_figure ==
    common_layout(
        update_layout(add_trace(Figure(<<>>), Scatter(<<>>, <<>>, "lines")),
                      [title |-> "Loading Data..."]))

(* ------------------------------ scraping ------------------------------- *)
\* an HTTP exchange: ok = FALSE is a network failure (requests raises);
\* otherwise tables is what pd.read_html finds in the body, in page order
NetworkError == [ok |-> FALSE, tables |-> <<>>]
Page(tables) == [ok |-> TRUE, tables |-> tables]

Table(columns, rows) == [columns |-> columns, rows |-> rows]

ColIdx(df, name) == CHOOSE i \in 1..Len(df.columns) : df.columns[i] = name

\* df[name]: the cells of one column, in row order
Column(df, name) == [r \in 1..Len(df.rows) |-> df.rows[r][ColIdx(df, name)]]

\* pd.read_html(text): the list of tables, or None where it raises
\* ValueError("No tables found")
read_html(page) == IF Len(page.tables) = 0 THEN None ELSE Some(page.tables)

\* start-up fetch wrapped in try/except: a failure leaves an empty list
StocksOf_Swallow(r) ==
    IF ~r.ok \/ Len(r.tables) = 0 THEN Some(<<>>)
    ELSE IF \E i \in 1..Len(r.tables[1].columns) : r.tables[1].columns[i] = "Symbol"
         THEN Some(Column(r.tables[1], "Symbol"))
         ELSE Some(<<>>)

\* line 24: read_html(requests.get(...).text)[0]['Symbol'].to_list(),
\* None where any part of the expression raises
StocksOf(r) ==
    IF ~r.ok THEN None
    ELSE IF read_html(r) = None THEN None
    ELSE LET df == read_html(r)[1][1]
         IN  IF \E i \in 1..Len(df.columns) : df.columns[i] = "Symbol"
             THEN Some(Column(df, "Symbol"))
             ELSE None

\* line 103: data.columns = [...]; None where pandas raises on a length mismatch
SetColumns(df) ==
    IF Len(df.columns) = Len(COLUMNS) THEN Some([df EXCEPT !.columns = COLUMNS]) ELSE None

\* coercion that drops the rows holding a cell it cannot convert
CoerceNumeric_DropInvalid(df) ==
    LET keep == SelectSeq(df.rows,
                    LAMBDA row : \A c \in 2..Len(row) : to_numeric(row[c]) # None)
    IN  [df EXCEPT !.rows =
            [r \in 1..Len(keep) |->
                [c \in 1..Len(keep[r]) |->
                    IF c = 1 THEN keep[r][c] ELSE to_numeric(keep[r][c])]]]

\* line 104: data.iloc[:, 1:] = data.iloc[:, 1:].apply(pd.to_numeric, errors='coerce')
CoerceNumeric(df) ==
    [df EXCEPT !.rows =
        [r \in 1..Len(df.rows) |->
            [c \in 1..Len(df.rows[r]) |->
                IF c = 1 THEN df.rows[r][c] ELSE to_numeric(df.rows[r][c])]]]

\* line 105: data['Date'] = pd.to_datetime(data['Date']); None where a cell
\* is not a date and pandas raises
ConvertDates(df) ==
    IF \E r \in 1..Len(df.rows) : ParseDate(df.rows[r][1]) = None THEN None
    ELSE Some([df EXCEPT !.rows =
                [r \in 1..Len(df.rows) |->
                    [c \in 1..Len(df.rows[r]) |->
                        IF c = 1 THEN ParseDate(df.rows[r][c])[1] ELSE df.rows[r][c]]]])

(* ------------------------- inputs of the environment ------------------- *)
\* what the most-active page can answer at start-up
TickerResponses ==
    { NetworkError,
      Page(<<>>),
      Page(<<Table(<<"Name", "Price">>, << <<"Apple Inc.", "190">> >>)>>),
      Page(<<Table(<<"Symbol", "Name">>,
                   << <<"MSFT", "Microsoft">>, <<"AAPL", "Apple Inc.">> >>),
             Table(<<"Name">>, <<>>)>>) }

\* a price row whose volume is not a number
PriceRow == <<"2020-01-03", "9", "9", "8", "8", "7", "-">>

\* a dividend row: one text spanning the six value columns
DividendRow ==
    <<"2020-01-02", "0.2 Dividend", "0.2 Dividend", "0.2 Dividend",
      "0.2 Dividend", "0.2 Dividend", "0.2 Dividend">>

\* the footnote row that ends the table on some pages: one text spanning
\* all seven columns
FootnoteRow ==
    <<"*Close price", "*Close price", "*Close price", "*Close price",
      "*Close price", "*Close price", "*Close price">>

HistoryRows == { PriceRow, DividendRow }

HistoryHeader == <<"Date", "Open", "High", "Low", "Close", "Adj Close", "Volume">>

\* every table of up to MaxRows rows, a table of a dividend row above a
\* price row, a table that ends in the footnote row, and a table laid out
\* with six columns
HistoryTables ==
    { Table(HistoryHeader, rows) :
        rows \in UNION { [1..n -> HistoryRows] : n \in 0..MaxRows } }
    \cup { Table(HistoryHeader, <<DividendRow, PriceRow>>),
           Table(HistoryHeader, <<PriceRow, FootnoteRow>>),
           Table(<<"Date", "Open", "High", "Low", "Close", "Volume">>,
                 << <<"2020-01-03", "9", "9", "8", "8", "500">> >>) }

\* what the history page can answer
HistoryResponses ==
    { NetworkError, Page(<<>>) } \cup { Page(<<t>>) : t \in HistoryTables }

\* values the date pickers can hand to the callback: a date, a day that
\* does not exist, a cleared picker (the dropdown hands None when cleared)
StartDates == { Some("2020-01-01"), Some("2020-02-30") }
EndDates == { Some(""), Some(Today) }

(* -------------------------------- state -------------------------------- *)
VARIABLES
    pc,              \* position of the main script
    stocks,          \* module-level ticker list (None before line 24 has run)
    tickerGets,      \* GETs of url_stocks issued by this process
    tickerWire,      \* what the site answered to the start-up GET
    dropdownOptions, \* options of 'dropdown-selection'
    dropdownValue,   \* value of 'dropdown-selection'
    startDate,       \* date of 'start-date-picker'
    endDate,         \* date of 'end-date-picker'
    figure,          \* figure of 'stock-graph' (None before the layout is built)
    serving,         \* the local HTTP server answers requests
    window,          \* the DashWindow (None before it is created)
    inv,             \* frame of the update_graph invocation each worker runs
    wire             \* what the site answered to each worker's GET

vars == <<pc, stocks, tickerGets, tickerWire, dropdownOptions, dropdownValue,
          startDate, endDate, figure, serving, window, inv, wire>>

mainVars == <<pc, stocks, tickerGets, tickerWire, serving, window>>
uiVars == <<dropdownOptions, dropdownValue, startDate, endDate>>

\* a worker that runs no invocation
IdleFrame ==
    [pc |-> "idle", symbol |-> None, start_date |-> None, end_date |-> None,
     url |-> None, gets |-> 0, parsed |-> 0, data |-> None,
     result |-> None]

Init ==
    /\ pc = "import"
    /\ stocks = None
    /\ tickerGets = 0
    /\ tickerWire = None
    /\ dropdownOptions = None
    /\ dropdownValue = None
    /\ startDate = None
    /\ endDate = None
    /\ figure = None
    /\ serving = FALSE
    /\ window = None
    /\ inv = [w \in Workers |-> IdleFrame]
    /\ wire = [w \in Workers |-> None]

(* ----------------------------- main script ----------------------------- *)
\* line 24: the statement either binds stocks or raises, which ends the import
FetchTickers ==
    /\ pc = "import"
    /\ \E r \in TickerResponses :
        /\ tickerGets' = tickerGets + 1
        /\ tickerWire' = Some(r)
        /\ IF StocksOf(r) = None
           THEN pc' = "crashed" /\ stocks' = stocks
           ELSE pc' = "init" /\ stocks' = StocksOf(r)
    /\ UNCHANGED <<uiVars, figure, serving, window, inv, wire>>

\* lines 28-91: the app, its layout with the default figure, the callback
BuildLayout ==
    /\ pc = "init"
    /\ pc' = "main"
    /\ dropdownOptions' = stocks
    /\ dropdownValue' = Some("AAPL")
    /\ startDate' = Some("2020-01-01")
    /\ endDate' = Some(Today)
    /\ figure' = Some(empty_figure)
    /\ UNCHANGED <<stocks, tickerGets, tickerWire, serving, window, inv, wire>>

\* line 137: app.run_server(debug=True) starts serving and blocks
RunServer ==
    /\ pc = "main"
    /\ pc' = "run_server"
    /\ serving' = TRUE
    /\ UNCHANGED <<stocks, tickerGets, tickerWire, uiVars, figure, window, inv, wire>>

\* run_server returns once the server has been interrupted and has stopped
\* serving; invocations already running finish on their threads
ServerReturns ==
    /\ pc = "run_server"
    /\ pc' = "qt"
    /\ serving' = FALSE
    /\ UNCHANGED <<stocks, tickerGets, tickerWire, uiVars, figure, window, inv, wire>>

\* lines 138-141: QApplication, DashWindow.__init__, show(), event loop
ShowWindow ==
    /\ pc = "qt"
    /\ pc' = "exec"
    /\ window' = Some([title |-> "Standalone Dash App",
                       url |-> "http://127.0.0.1:8050/",
                       shown |-> TRUE])
    /\ UNCHANGED <<stocks, tickerGets, tickerWire, uiVars, figure, serving, inv, wire>>

(* ---------------------------- update_graph ---------------------------- *)
\* Python truthiness of an optional string: only None counts as missing
Falsy_NoneOnly(v) == v = None

\* "not v" for an optional string: None and "" are both falsy
Falsy(v) == v = None \/ v[1] = ""

\* line 94
InputsMissing(symbol, start_date, end_date) ==
    Falsy(symbol) \/ Falsy(start_date) \/ Falsy(end_date)

\* datetime.strptime(v, "%Y-%m-%d"): None where it raises (TypeError on
\* None, ValueError on a string that is not a date)
strptime(v) == IF v = None THEN None ELSE ParseDate(v[1])

\* line 100: None where the concatenation raises TypeError (symbol is None)
url_history(symbol, period1, period2) ==
    IF symbol = None THEN None
    ELSE Some("https://finance.yahoo.com/quote/" \o symbol[1]
              \o "/history/?period1=" \o ToString(period1)
              \o "&period2=" \o ToString(period2))

\* failure caught inside the callback and answered with the placeholder
Raise_Caught(f) ==
    [f EXCEPT !.pc = "returned", !.result = Some(empty_figure), !.url = None,
              !.data = None]

\* the invocation ends by raising: its locals are gone, nothing is returned
Raise(f) ==
    [f EXCEPT !.pc = "raised", !.url = None, !.data = None]

\* return that leaves the table reachable after the call (a module-level cache)
Return_KeepData(f, fig) ==
    [f EXCEPT !.pc = "returned", !.result = Some(fig), !.url = None]

\* the invocation ends by returning fig: its locals are gone
Return(f, fig) ==
    [f EXCEPT !.pc = "returned", !.result = Some(fig), !.url = None,
              !.data = None]

\* the plotted column taken from 'Close'
YSeries_Close(df) == Column(df, "Close")

\* line 106: y=data["Adj Close"]
YSeries(df) == Column(df, "Adj Close")

\* title built from the symbol the dropdown shows when the figure is drawn
FigureTitle_Selected(symbol) ==
    "Stock Prices: " \o (IF Falsy(dropdownValue) THEN "" ELSE dropdownValue[1])

\* line 107: f"Stock Prices: {symbol}"
FigureTitle(symbol) == "Stock Prices: " \o symbol

\* lines 103-114 on the scraped table df: the returned figure, or None where
\* a statement raises
DrawFigure(symbol, df) ==
    LET named == SetColumns(df)
    IN  IF named = None THEN None
        ELSE LET dated == ConvertDates(CoerceNumeric(named[1]))
             IN  IF dated = None THEN None
                 ELSE LET fig0 == Figure(<<Scatter(Column(dated[1], "Date"),
                                                   YSeries(dated[1]), "lines")>>)
                          fig1 == update_layout(fig0, [title |-> FigureTitle(symbol)])
                          fig2 == update_layout(fig1,
                                    [title_x |-> "0.5", width |-> 600, height |-> 400])
                      IN  Some(common_layout(fig2))

\* the framework calls update_graph(symbol, start_date, end_date) on the
\* first idle worker; symbol, start_date, end_date, gets and parsed stay in
\* the frame as the record of the call
Dispatch(symbol, start_date, end_date) ==
    /\ serving
    /\ figure # None
    /\ \E w \in Workers :
        /\ inv[w].pc = "idle"
        /\ \A v \in Workers : v < w => inv[v].pc # "idle"
        /\ inv' = [inv EXCEPT ![w] = [IdleFrame EXCEPT !.pc = "called",
                                                       !.symbol = symbol,
                                                       !.start_date = start_date,
                                                       !.end_date = end_date]]
        /\ UNCHANGED wire

\* the browser (re)loads the page: the components show the layout's values
\* and the callback fires once with them
PageLoad ==
    /\ Dispatch(Some("AAPL"), Some("2020-01-01"), Some(Today))
    /\ dropdownValue' = Some("AAPL")
    /\ startDate' = Some("2020-01-01")
    /\ endDate' = Some(Today)
    /\ figure' = Some(empty_figure)
    /\ UNCHANGED <<mainVars, dropdownOptions>>

\* the user picks another option of the dropdown, or clears it
SelectSymbol ==
    /\ dropdownOptions # None
    /\ \E v \in {None}
               \cup {Some(dropdownOptions[1][k]) : k \in DOMAIN dropdownOptions[1]} :
        /\ v # dropdownValue
        /\ Dispatch(v, startDate, endDate)
        /\ dropdownValue' = v
        /\ UNCHANGED <<mainVars, dropdownOptions, startDate, endDate, figure>>

\* the user changes or clears the start date
PickStartDate ==
    \E d \in StartDates :
        /\ d # startDate
        /\ Dispatch(dropdownValue, d, endDate)
        /\ startDate' = d
        /\ UNCHANGED <<mainVars, dropdownOptions, dropdownValue, endDate, figure>>

\* the user changes or clears the end date
PickEndDate ==
    \E d \in EndDates :
        /\ d # endDate
        /\ Dispatch(dropdownValue, startDate, d)
        /\ endDate' = d
        /\ UNCHANGED <<mainVars, dropdownOptions, dropdownValue, startDate, figure>>

\* lines 94-100
Enter(w) ==
    /\ inv[w].pc = "called"
    /\ LET f == inv[w]
           p1 == strptime(f.start_date)
           p2 == strptime(f.end_date)
       IN  inv' = [inv EXCEPT ![w] =
             IF InputsMissing(f.symbol, f.start_date, f.end_date)
             THEN Return(f, empty_figure)
             ELSE IF p1 = None
             THEN Raise([f EXCEPT !.parsed = 1])
             ELSE IF p2 = None
             THEN Raise([f EXCEPT !.parsed = 2])
             ELSE LET url == url_history(f.symbol, Timestamp(p1[1]), Timestamp(p2[1]))
                  IN  IF url = None
                      THEN Raise([f EXCEPT !.parsed = 2])
                      ELSE [f EXCEPT !.pc = "get", !.parsed = 2, !.url = url]]
    /\ UNCHANGED <<mainVars, uiVars, figure, wire>>

\* fetch that reuses the page another invocation holds instead of issuing
\* a GET of its own
Fetch_Dedup(w) ==
    /\ inv[w].pc = "get"
    /\ \E r \in HistoryResponses :
        /\ LET shared == \E v \in Workers \ {w} : wire[v] # None /\ wire[v][1].ok
               got == IF shared
                      THEN (CHOOSE v \in Workers \ {w} : wire[v] # None /\ wire[v][1].ok)
                      ELSE w
               page == IF shared THEN wire[got][1] ELSE r
               f == IF shared THEN inv[w] ELSE [inv[w] EXCEPT !.gets = @ + 1]
           IN  /\ wire' = [wire EXCEPT ![w] = Some(page)]
               /\ inv' = [inv EXCEPT ![w] =
                     IF ~page.ok THEN Raise(f)
                     ELSE IF read_html(page) = None THEN Raise(f)
                     ELSE [f EXCEPT !.pc = "parsed", !.data = Some(read_html(page)[1][1])]]
    /\ UNCHANGED <<mainVars, uiVars, figure>>

\* line 102, data = pd.read_html(requests.get(url_history, headers=headers).text)[0]:
\* one GET, answered by the site or failing in the network, then the parse
Fetch(w) ==
    /\ inv[w].pc = "get"
    /\ \E r \in HistoryResponses :
        /\ wire' = [wire EXCEPT ![w] = Some(r)]
        /\ LET f == [inv[w] EXCEPT !.gets = @ + 1]
           IN  inv' = [inv EXCEPT ![w] =
                 IF ~r.ok THEN Raise(f)
                 ELSE IF read_html(r) = None THEN Raise(f)
                 ELSE [f EXCEPT !.pc = "parsed", !.data = Some(read_html(r)[1][1])]]
    /\ UNCHANGED <<mainVars, uiVars, figure>>

\* lines 103-114
Draw(w) ==
    /\ inv[w].pc = "parsed"
    /\ LET f == inv[w]
           fig == DrawFigure(f.symbol[1], f.data[1])
       IN  inv' = [inv EXCEPT ![w] = IF fig = None THEN Raise(f) ELSE Return(f, fig[1])]
    /\ UNCHANGED <<mainVars, uiVars, figure, wire>>

\* the framework answers the request: a returned figure replaces the
\* graph's figure, a raised failure becomes an error response that leaves
\* the page as it is; the worker is free again
Deliver(w) ==
    /\ inv[w].pc \in {"returned", "raised"}
    /\ figure' = IF inv[w].pc = "returned" THEN inv[w].result ELSE figure
    /\ inv' = [inv EXCEPT ![w] = IdleFrame]
    /\ wire' = [wire EXCEPT ![w] = None]
    /\ UNCHANGED <<mainVars, uiVars>>

\* update_graph run from call to end with nothing else running, the site
\* answering r to its GET: the frame it ends with
update_graph(symbol, start_date, end_date, r) ==
    LET f == [IdleFrame EXCEPT !.symbol = symbol, !.start_date = start_date,
                               !.end_date = end_date]
        p1 == strptime(start_date)
        p2 == strptime(end_date)
    IN  IF InputsMissing(symbol, start_date, end_date) THEN Return(f, empty_figure)
        ELSE IF p1 = None THEN Raise([f EXCEPT !.parsed = 1])
        ELSE IF p2 = None THEN Raise([f EXCEPT !.parsed = 2])
        ELSE IF url_history(symbol, Timestamp(p1[1]), Timestamp(p2[1])) = None
        THEN Raise([f EXCEPT !.parsed = 2])
        ELSE LET g == [f EXCEPT !.parsed = 2, !.gets = 1]
             IN  IF ~r.ok \/ read_html(r) = None THEN Raise(g)
                 ELSE LET fig == DrawFigure(symbol[1], read_html(r)[1][1])
                      IN  IF fig = None THEN Raise(g) ELSE Return(g, fig[1])

Next ==
    \/ FetchTickers
    \/ BuildLayout
    \/ RunServer
    \/ ServerReturns
    \/ ShowWindow
    \/ PageLoad
    \/ SelectSymbol
    \/ PickStartDate
    \/ PickEndDate
    \/ \E w \in Workers : Enter(w)
    \/ \E w \in Workers : Fetch(w)
    \/ \E w \in Workers : Draw(w)
    \/ \E w \in Workers : Deliver(w)

Spec == Init /\ [][Next]_vars

\* the script's own straight-line steps run to completion; nothing obliges
\* the user to interrupt the server or to touch the page, and a GET has no
\* timeout
FairSpec ==
    /\ Spec
    /\ WF_vars(BuildLayout)
    /\ WF_vars(RunServer)
    /\ WF_vars(ShowWindow)

(* ------------------------------ properties ----------------------------- *)
\* the invocation on worker w has ended
Done(w) == inv[w].pc \in {"returned", "raised"}

\* an argument that is neither None nor the empty string
Present(v) == v # None /\ v[1] # ""

AllPresent(w) ==
    Present(inv[w].symbol) /\ Present(inv[w].start_date) /\ Present(inv[w].end_date)

\* the first table of the page worker w was answered with, as scraped
RawTable(w) == wire[w][1].tables[1]

\* the page worker w was answered with cannot be drawn for one of the
\* reasons of C5
BadPage(w) ==
    /\ wire[w] # None
    /\ \/ ~wire[w][1].ok
       \/ Len(wire[w][1].tables) = 0
       \/ Len(RawTable(w).columns) # 7

\* the figure of a finished invocation
Result(w) == inv[w].result[1]

Placeholder ==
    [layout |-> [title |-> "Loading Data...", title_x |-> "0.5", width |-> 800,
                 height |-> 600, template |-> "plotly_white"],
     data |-> << [type |-> "scatter", x |-> <<>>, y |-> <<>>, mode |-> "lines"] >>]

\* C1: an invocation with all three inputs present that returns a chart
\* returns one titled "Stock Prices: " followed by its own symbol, with
\* exactly one line trace whose y is the 'Adj Close' column (sixth cell of
\* each scraped row, as a number or missing) and whose x is the 'Date'
\* column, row by row.
C1_TitleAndTrace ==
    \A w \in Workers :
        (inv[w].pc = "returned" /\ AllPresent(w)) =>
            /\ "title" \in DOMAIN Result(w).layout
            /\ Result(w).layout["title"] = "Stock Prices: " \o inv[w].symbol[1]
            /\ Len(Result(w).data) = 1
            /\ Result(w).data[1].type = "scatter"
            /\ Result(w).data[1].mode = "lines"
            /\ Len(Result(w).data[1].y) = Len(RawTable(w).rows)
            /\ Len(Result(w).data[1].x) = Len(RawTable(w).rows)
            /\ \A r \in 1..Len(RawTable(w).rows) :
                /\ Result(w).data[1].y[r] = to_numeric(RawTable(w).rows[r][6])
                /\ Result(w).data[1].x[r] = ParseDate(RawTable(w).rows[r][1])[1]

\* C1 witness: a chart for MSFT has been returned, with at least one point,
\* while the dropdown already shows another selection
C1_Witness ==
    \E w \in Workers :
        /\ inv[w].pc = "returned"
        /\ inv[w].symbol = Some("MSFT")
        /\ wire[w] # None
        /\ Len(Result(w).data[1].y) >= 1
        /\ dropdownValue # Some("MSFT")

\* C2 as stated: every invocation of update_graph issues exactly one GET.
C2_OneGetPerInvocation ==
    \A w \in Workers : Done(w) => inv[w].gets = 1

\* C2 amended: an invocation whose three inputs are present and whose two
\* dates parse issues exactly one GET, whatever earlier or concurrent
\* invocations fetched; any other invocation issues none.
C2_OneGetWhenInputsValid ==
    \A w \in Workers :
        /\ inv[w].gets <= 1
        /\ Done(w) =>
            inv[w].gets =
                (IF /\ AllPresent(w)
                    /\ ParseDate(inv[w].start_date[1]) # None
                    /\ ParseDate(inv[w].end_date[1]) # None
                 THEN 1 ELSE 0)

\* C2 witness: two invocations with identical inputs have both ended, each
\* after a GET of its own
C2_Witness ==
    /\ \A w \in Workers : Done(w) /\ inv[w].gets = 1 /\ wire[w] # None
    /\ inv[1].symbol = inv[2].symbol
    /\ inv[1].start_date = inv[2].start_date
    /\ inv[1].end_date = inv[2].end_date

\* the start-up GET did not yield a ticker list
TickerFetchFailed ==
    /\ tickerWire # None
    /\ \/ ~tickerWire[1].ok
       \/ Len(tickerWire[1].tables) = 0
       \/ \A i \in 1..Len(tickerWire[1].tables[1].columns) :
            tickerWire[1].tables[1].columns[i] # "Symbol"

\* C3: the ticker list is fetched once, before the layout exists and before
\* the server serves; a failed fetch leaves the script crashed with no
\* layout and no server; after the fetch no step fetches again or changes
\* the list.
C3_TickersOnceAtStartup ==
    /\ [](/\ tickerGets <= 1
          /\ (pc # "import") => tickerGets = 1
          /\ (figure # None \/ serving \/ \E w \in Workers : inv[w].pc # "idle") =>
                (stocks # None /\ tickerGets = 1 /\ ~TickerFetchFailed)
          /\ TickerFetchFailed =>
                (pc = "crashed" /\ stocks = None /\ figure = None /\ ~serving))
    /\ [][(pc # "import") => (stocks' = stocks /\ tickerGets' = tickerGets)]_vars

\* C3 witness: the server is serving, an invocation has ended and another
\* is running, after the single start-up fetch
C3_Witness ==
    /\ serving
    /\ tickerGets = 1
    /\ stocks = Some(<<"MSFT", "AAPL">>)
    /\ Done(1)
    /\ inv[2].pc = "parsed"

\* C4 as stated: once an invocation has ended, neither a ticker list nor a
\* price table is left in program state.
C4_NothingKept ==
    \A w \in Workers : Done(w) => (stocks = None /\ inv[w].data = None)

\* C4 amended: once an invocation has ended its price table is gone, while
\* the ticker list fetched at start-up is still the module's list and the
\* dropdown's options.
C4_TableDroppedTickersKept ==
    \A w \in Workers :
        Done(w) =>
            /\ inv[w].data = None
            /\ inv[w].url = None
            /\ stocks # None
            /\ stocks = Some(Column(tickerWire[1].tables[1], "Symbol"))
            /\ dropdownOptions = stocks

\* C4 witness: an invocation that scraped a table with rows has returned
C4_Witness ==
    \E w \in Workers :
        /\ inv[w].pc = "returned"
        /\ wire[w] # None
        /\ Len(RawTable(w).rows) >= 1

\* C5: an invocation answered with a network failure, a page without a
\* table or a table that has not seven columns ends raised, with no figure;
\* answering it changes neither the displayed figure nor the ticker list
\* nor the server, frees the worker, and a serving server with a free
\* worker accepts the next invocation.
C5_FailureEndsCycleOnly ==
    /\ [](/\ \A w \in Workers :
                (Done(w) /\ BadPage(w)) => (inv[w].pc = "raised" /\ inv[w].result = None)
          /\ \A w \in Workers : (inv[w].pc = "raised") => (inv[w].result = None)
          /\ (serving /\ \E w \in Workers : inv[w].pc = "idle") => ENABLED PageLoad)
    /\ [][\A w \in Workers :
            (inv[w].pc = "raised" /\ inv'[w].pc # "raised") =>
                /\ figure' = figure
                /\ stocks' = stocks
                /\ serving' = serving
                /\ inv'[w].pc = "idle"]_vars

\* C5 witness: an invocation has raised on a six-column table while the
\* graph shows an earlier chart
C5_Witness ==
    \E w \in Workers :
        /\ inv[w].pc = "raised"
        /\ wire[w] # None
        /\ wire[w][1].ok
        /\ Len(wire[w][1].tables) = 1
        /\ Len(RawTable(w).columns) = 6
        /\ figure # None
        /\ figure[1].layout["title"] = "Stock Prices: AAPL"

\* C6 as stated: once the ticker list is fetched, the program eventually
\* serves the chart UI and shows the DashWindow at the same time.
C6_ServingAndWindow ==
    (stocks # None) ~> (serving /\ window # None)

\* C7: every drawn chart has one point per scraped row, in row order: y is
\* the number in the row's 'Adj Close' cell when the cell is all digits and
\* missing otherwise, x is the row's date; and a seven-column table whose
\* date cells are dates is always drawn, whatever its other cells hold.
C7_CoercionKeepsRows ==
    \A w \in Workers :
        /\ (inv[w].pc = "returned" /\ wire[w] # None) =>
            /\ Len(Result(w).data[1].y) = Len(RawTable(w).rows)
            /\ \A r \in 1..Len(RawTable(w).rows) :
                /\ Result(w).data[1].y[r] =
                     (IF AllDigits(RawTable(w).rows[r][6])
                      THEN Some(NatOf(RawTable(w).rows[r][6])) ELSE None)
                /\ Result(w).data[1].x[r] = ParseDate(RawTable(w).rows[r][1])[1]
        /\ (/\ Done(w)
            /\ wire[w] # None
            /\ ~BadPage(w)
            /\ \A r \in 1..Len(RawTable(w).rows) :
                    ParseDate(RawTable(w).rows[r][1]) # None) =>
            inv[w].pc = "returned"

\* C7 witness: a chart drawn from the dividend row above the price row: a
\* missing point followed by 7
C7_Witness ==
    \E w \in Workers :
        /\ inv[w].pc = "returned"
        /\ wire[w] # None
        /\ RawTable(w).rows = <<DividendRow, PriceRow>>
        /\ Result(w).data[1].y = <<None, Some(7)>>

\* C8: however invocations interleave, a finished invocation is in the
\* state update_graph reaches when run alone on the same inputs and the
\* same answer of the site; and a step of a running invocation changes
\* nothing but that invocation's own frame and its own exchange.
C8_InvocationsIndependent ==
    /\ [](\A w \in Workers :
            Done(w) =>
                inv[w] = update_graph(inv[w].symbol, inv[w].start_date, inv[w].end_date,
                                      IF wire[w] = None THEN NetworkError ELSE wire[w][1]))
    /\ [][\A w \in Workers :
            (inv[w].pc \in {"called", "get", "parsed"} /\ inv'[w] # inv[w]) =>
                /\ \A v \in Workers \ {w} : inv'[v] = inv[v] /\ wire'[v] = wire[v]
                /\ UNCHANGED <<mainVars, uiVars, figure>>]_vars

\* C8 witness: two invocations for different symbols have both returned a
\* chart
C8_Witness ==
    /\ inv[1].pc = "returned" /\ wire[1] # None /\ inv[1].symbol = Some("AAPL")
    /\ inv[2].pc = "returned" /\ wire[2] # None /\ inv[2].symbol = Some("MSFT")

\* C9: an invocation with a missing or empty input returns the placeholder
\* figure and has issued no GET and parsed no date; an invocation past the
\* guard has all three inputs.
C9_MissingInputPlaceholder ==
    \A w \in Workers :
        /\ (Done(w) /\ ~AllPresent(w)) =>
            /\ inv[w].pc = "returned"
            /\ inv[w].result = Some(Placeholder)
            /\ inv[w].gets = 0
            /\ inv[w].parsed = 0
            /\ wire[w] = None
        /\ (inv[w].pc \in {"get", "parsed"}) => AllPresent(w)

\* C9 witness: an invocation called with a symbol, a start date and an
\* empty end date has returned
C9_Witness ==
    \E w \in Workers :
        /\ inv[w].pc = "returned"
        /\ Present(inv[w].symbol)
        /\ Present(inv[w].start_date)
        /\ inv[w].end_date = Some("")

\* the four settings of common_layout
HasCommonLayout(fig) ==
    /\ {"title_x", "width", "height", "template"} \subseteq DOMAIN fig.layout
    /\ fig.layout["title_x"] = "0.5"
    /\ fig.layout["width"] = 800
    /\ fig.layout["height"] = 600
    /\ fig.layout["template"] = "plotly_white"

\* C10: the figure the graph holds and every figure an invocation returns
\* is 800 wide and 600 high, with a centered title and the plotly_white
\* template.
C10_CommonLayout ==
    /\ figure # None => HasCommonLayout(figure[1])
    /\ \A w \in Workers : inv[w].result # None => HasCommonLayout(Result(w))

\* C10 witness: the graph holds a chart drawn by update_graph
C10_Witness ==
    /\ figure # None
    /\ figure[1].layout["title"] = "Stock Prices: MSFT"
    /\ Len(figure[1].data[1].y) >= 1

====
